---------------------------- MODULE Spec2Model ----------------------------
(***************************************************************************)
(* A model of pertpy's discriminator-classifier perturbation space         *)
(* (pertpy/tools/_perturbation_space/_discriminator_classifier.py):        *)
(* DiscriminatorClassifierSpace.load / train / get_embeddings, the MLP,    *)
(* PLDataset and PerturbationClassifier.                                   *)
(*                                                                         *)
(* Tensors are modelled by their shapes (sequences of dimensions) and by   *)
(* the symbolic trace of the layers applied to them; cells are modelled    *)
(* by their row position in the AnnData object.  Library calls (sklearn's  *)
(* train_test_split, torch, anndata, pytorch_lightning) are modelled by    *)
(* their documented behaviour at the place the source calls them.          *)
(***************************************************************************)
EXTENDS Integers, Sequences, FiniteSets, TLC

VARIABLES
    mlp,              \* a free-standing MLP object: <<>> before construction
    mlp_out,          \* what the last MLP call returned or raised
    adata,            \* the caller's AnnData object as the last call left it
    train_dataloader, \* self.train_dataloader
    valid_dataloader, \* self.valid_dataloader
    test_dataloader,  \* self.test_dataloader
    net,              \* self.net
    entire_dataset,   \* self.entire_dataset
    adata_obs,        \* self.adata_obs
    trainer,          \* self.trainer
    model,            \* self.model
    pc,               \* where the running train call is: "idle" between calls
    call,             \* the last call made on the object, with its outcome
    loaded,           \* the arguments of the last load that succeeded
    result            \* the AnnData the last call returned, if it returned one

vars == <<mlp, mlp_out, adata, train_dataloader, valid_dataloader,
          test_dataloader, net, entire_dataset, adata_obs, trainer, model,
          pc, call, loaded, result>>

selfVars == <<train_dataloader, valid_dataloader, test_dataloader, net,
              entire_dataset, adata_obs, trainer, model>>

objVars == <<adata, train_dataloader, valid_dataloader, test_dataloader, net,
             entire_dataset, adata_obs, trainer, model, pc, call, loaded,
             result>>

mlpVars == <<mlp, mlp_out>>

(***************************************************************************)
(* Bounds of the model.                                                    *)
(***************************************************************************)
MaxWidth == 2       \* layer widths range over 1..MaxWidth
MaxHidden == 2      \* at most this many hidden layers
MaxObs == 7         \* cells per AnnData: 1..MaxObs
MaxClasses == 2     \* distinct perturbations per AnnData: 1..MaxClasses
MaxBatch == 3       \* batch_size ranges over 1..MaxBatch
MaxEpochs == 3      \* max_epochs ranges over 1..MaxEpochs
MaxValCheck == 2    \* val_epochs_check ranges over 1..MaxValCheck
MaxPatience == 2    \* patience ranges over 1..MaxPatience
MaxLoss == 2        \* a validation loss is one of 0..MaxLoss

(***************************************************************************)
(* An attribute that does not exist yet is <<>>; one holding v is <<v>>.   *)
(***************************************************************************)
Absent == <<>>

Some(v) == <<v>>

Has(attr) == attr # <<>>

Val(attr) == attr[1]

RECURSIVE SeqSum(_)
SeqSum(s) == IF s = <<>> THEN 0 ELSE Head(s) + SeqSum(Tail(s))

RECURSIVE Concat(_)
Concat(ss) == IF ss = <<>> THEN <<>> ELSE Head(ss) \o Concat(Tail(ss))

Filter(s, Keep(_)) == SelectSeq(s, Keep)

Last(s) == s[Len(s)]

ButLast(s) == SubSeq(s, 1, Len(s) - 1)

(***************************************************************************)
(* torch.nn layers.  A layer is [kind, a, b]: Linear(a, b), BatchNorm1d(a),*)
(* LayerNorm(a), ReLU(), Dropout(p) (p in tenths), or None.                *)
(***************************************************************************)
Linear(a, b) == [kind |-> "Linear", a |-> a, b |-> b]

BatchNorm1d(a) == [kind |-> "BatchNorm1d", a |-> a, b |-> a]

LayerNorm(a) == [kind |-> "LayerNorm", a |-> a, b |-> a]

ReLU == [kind |-> "ReLU", a |-> 0, b |-> 0]

Dropout(p) == [kind |-> "Dropout", a |-> p, b |-> p]

None == [kind |-> "None", a |-> 0, b |-> 0]

NotNone(layer) == layer # None

\* The five candidate layers MLP.__init__ lists for position s (1-based
\* here: s ranges over 1..Len(sizes)-1, "s < len(sizes) - 2" in the 0-based
\* source is "s < Len(sizes) - 1").
LayerBlock(sizes, s, dropout, batch_norm, layer_norm) ==
    << Linear(sizes[s], sizes[s + 1]),
       IF batch_norm /\ s < Len(sizes) - 1
           THEN BatchNorm1d(sizes[s + 1]) ELSE None,
       IF layer_norm /\ s < Len(sizes) - 1 /\ ~batch_norm
           THEN LayerNorm(sizes[s + 1]) ELSE None,
       ReLU,
       IF s < Len(sizes) - 1 THEN Dropout(dropout) ELSE None >>

\* Mutant of TrimLayers: the trailing activation is not removed.
TrimLayersKeepLast(layers) == Filter(layers, NotNone)

\* layers = [layer for layer in layers if layer is not None][:-1]
TrimLayers(layers) == ButLast(Filter(layers, NotNone))

\* MLP.__init__: the object it constructs, or a raise.
MLP(sizes, dropout, batch_norm, layer_norm, last_layer_act) ==
    LET layers == Concat([s \in 1..(Len(sizes) - 1) |->
                             LayerBlock(sizes, s, dropout, batch_norm,
                                        layer_norm)])
    IN  IF last_layer_act \notin {"linear", "ReLU"}
            THEN [raised |-> "ValueError"]
            ELSE [raised |-> "",
                  network |-> TrimLayers(layers),
                  activation |-> last_layer_act,
                  sizes |-> sizes,
                  batch_norm |-> batch_norm,
                  layer_norm |-> layer_norm,
                  last_layer_act |-> last_layer_act]

(***************************************************************************)
(* A tensor is [shape, trace]: its shape and the layers applied so far.    *)
(* Applying a layer to a tensor whose last dimension it does not fit, or   *)
(* a training-mode BatchNorm1d to a batch of one, raises.                  *)
(***************************************************************************)
Raised(kind) == [shape |-> <<>>, trace |-> <<>>, raised |-> kind]

Tensor(shape) == [shape |-> shape, trace |-> <<>>, raised |-> ""]

ApplyLayer(layer, x, training) ==
    IF x.raised # "" THEN x
    ELSE IF layer.kind \in {"ReLU", "Dropout"}
        THEN [x EXCEPT !.trace = Append(@, layer)]
    ELSE IF Len(x.shape) # 2 \/ Last(x.shape) # layer.a
        THEN Raised("RuntimeError")
    ELSE IF layer.kind = "BatchNorm1d" /\ training /\ x.shape[1] = 1
        THEN Raised("ValueError")
    ELSE [x EXCEPT !.shape = <<x.shape[1], layer.b>>,
                   !.trace = Append(@, layer)]

RECURSIVE ApplyLayers(_, _, _)
ApplyLayers(layers, x, training) ==
    IF layers = <<>> THEN x
    ELSE ApplyLayers(Tail(layers), ApplyLayer(Head(layers), x, training),
                     training)

\* MLP.forward
MLPforward(m, x, training) ==
    IF m.activation = "ReLU"
        THEN ApplyLayer(ReLU, ApplyLayers(m.network, x, training), training)
        ELSE ApplyLayers(m.network, x, training)

\* MLP.embedding: for layer in self.network[:-1]: x = layer(x)
MLPembedding(m, x, training) ==
    ApplyLayers(ButLast(m.network), x, training)

(***************************************************************************)
(* The free-standing MLP: construction, forward and embedding.             *)
(***************************************************************************)
Widths == 1..MaxWidth

SizesLists ==
    UNION {[1..n -> Widths] : n \in 2..(MaxHidden + 2)}

Activations == {"linear", "ReLU", "tanh"}

DropoutPs == {0, 5}

NoOut == [op |-> "none", x |-> Tensor(<<>>), y |-> Tensor(<<>>)]

MLPNew(sizes, dropout, batch_norm, layer_norm, last_layer_act) ==
    /\ mlp = Absent
    /\ LET m == MLP(sizes, dropout, batch_norm, layer_norm, last_layer_act)
       IN  IF m.raised # ""
               THEN /\ mlp' = mlp
                    /\ mlp_out' = [NoOut EXCEPT !.op = "init_raised"]
               ELSE /\ mlp' = Some(m)
                    /\ mlp_out' = [NoOut EXCEPT !.op = "init"]
    /\ UNCHANGED objVars

MLPCallForward(batch) ==
    /\ Has(mlp)
    /\ LET x == Tensor(<<batch, Val(mlp).sizes[1]>>)
       IN  mlp_out' = [op |-> "forward", x |-> x,
                       y |-> MLPforward(Val(mlp), x, FALSE)]
    /\ UNCHANGED <<mlp, objVars>>

MLPCallEmbedding(batch) ==
    /\ Has(mlp)
    /\ LET x == Tensor(<<batch, Val(mlp).sizes[1]>>)
       IN  mlp_out' = [op |-> "embedding", x |-> x,
                       y |-> MLPembedding(Val(mlp), x, FALSE)]
    /\ UNCHANGED <<mlp, objVars>>

(***************************************************************************)
(* AnnData objects.  An AnnData is [n_obs, n_vars, obs, obs_names,         *)
(* layers]: obs maps a column name to the sequence of its values (one per  *)
(* cell), obs_names is the index of .obs, layers is the set of layer keys. *)
(* Row i of the matrix read from source src ("X" or a layer key) is        *)
(* <<src, i>>.  Positions are 1-based here (0-based in the source).        *)
(* Perturbation names are the integers 0, 1, ...; 0 is the control.        *)
(***************************************************************************)
PyNone == "<None>"

RECURSIVE SortedSeq(_)
SortedSeq(S) ==
    IF S = {} THEN <<>>
    ELSE LET m == CHOOSE x \in S : \A y \in S : x <= y
         IN  <<m>> \o SortedSeq(S \ {m})

Range(f) == {f[i] : i \in DOMAIN f}

Count(seq, v) == Cardinality({i \in DOMAIN seq : seq[i] = v})

CeilDiv(a, b) == (a + b - 1) \div b

\* OneHotEncoder().fit_transform(labels).toarray(): one row per label, one
\* column per distinct label in sorted order.
OneHotEncode(labels) ==
    LET cats == SortedSeq(Range(labels))
    IN  [i \in DOMAIN labels |->
            [j \in DOMAIN cats |-> IF cats[j] = labels[i] THEN 1 ELSE 0]]

(***************************************************************************)
(* sklearn.model_selection.train_test_split(X, y, test_size, stratify=y).  *)
(* X is a sequence of cell positions, y maps a cell position to its label, *)
(* test_size is the fraction <<num, den>>.  The result is the set of       *)
(* outcomes the shuffle can produce: a raise, or a split whose class       *)
(* proportions follow y (the test part takes what the train part leaves).  *)
(* The lists it returns are kept in ascending order.                       *)
(***************************************************************************)
\* _approximate_mode(class_counts, n_draws): the per-class numbers of draws,
\* floor(count * n_draws / total) each and one more for the classes with
\* the largest remainders, ties broken at random.
ApproximateModes(counts, n_draws) ==
    LET classes == DOMAIN counts
        total == SeqSum([i \in 1..Cardinality(classes) |->
                            counts[SortedSeq(classes)[i]]])
        floored == [c \in classes |-> (counts[c] * n_draws) \div total]
        rem == [c \in classes |-> (counts[c] * n_draws) % total]
        need == n_draws - SeqSum([i \in 1..Cardinality(classes) |->
                                     floored[SortedSeq(classes)[i]]])
    IN  {[c \in classes |-> floored[c] + (IF c \in A THEN 1 ELSE 0)] :
            A \in {B \in SUBSET classes :
                      /\ Cardinality(B) = need
                      /\ \A c \in B, d \in classes \ B : rem[c] >= rem[d]}}

KSubsets(S, m) == {T \in SUBSET S : Cardinality(T) = m}

\* The sets holding n_i[k] of the cells of class k, for every class k of ks.
RECURSIVE StratifiedPicks(_, _, _, _)
StratifiedPicks(ks, n_i, cells, y) ==
    IF ks = <<>> THEN {{}}
    ELSE {S \cup R :
            S \in KSubsets({c \in cells : y[c] = Head(ks)}, n_i[Head(ks)]),
            R \in StratifiedPicks(Tail(ks), n_i, cells, y)}

TrainTestSplit(X, y, test_size) ==
    LET n_samples == Len(X)
        n_test == CeilDiv(test_size[1] * n_samples, test_size[2])
        n_train == n_samples - n_test
        cells == Range(X)
        classes == {y[c] : c \in cells}
        counts == [k \in classes |-> Cardinality({c \in cells : y[c] = k})]
    IN  IF n_train = 0 THEN {[raised |-> "ValueError"]}
        ELSE IF \E k \in classes : counts[k] < 2
            THEN {[raised |-> "ValueError"]}
        ELSE IF n_train < Cardinality(classes)
                \/ n_test < Cardinality(classes)
            THEN {[raised |-> "ValueError"]}
        ELSE {[raised |-> "",
               train |-> SortedSeq(T),
               test |-> SortedSeq(cells \ T)] :
                 T \in UNION {StratifiedPicks(SortedSeq(classes), n_i,
                                              cells, y) :
                                n_i \in ApproximateModes(counts, n_train)}}

\* Mutant of ValidationSplit: the second split uses test_split_size.
ValidationSplitTestSize(X_train, y, test_split_size, validation_split_size) ==
    TrainTestSplit(X_train, y, test_split_size)

\* The second split: train_test_split(X_train, y_train,
\* test_size=validation_split_size, stratify=y_train)
ValidationSplit(X_train, y, test_split_size, validation_split_size) ==
    TrainTestSplit(X_train, y, validation_split_size)

(***************************************************************************)
(* PLDataset.__init__ on the view adata[rows]: the dataset, or a raise     *)
(* when layer_key is truthy and names no layer.                            *)
(***************************************************************************)
PLDataset(a, rows, target_col, label_col, layer_key) ==
    IF layer_key \notin {PyNone, ""} /\ layer_key \notin a.layers
        THEN [raised |-> "KeyError"]
        ELSE [raised |-> "",
              n_vars |-> a.n_vars,
              data |-> [i \in DOMAIN rows |->
                          <<IF layer_key \notin {PyNone, ""}
                                THEN layer_key ELSE "X", rows[i]>>],
              labels |-> [i \in DOMAIN rows |-> a.obs[target_col][rows[i]]],
              pert_labels |-> [i \in DOMAIN rows |->
                                  a.obs[label_col][rows[i]]]]

\* PLDataset.__getitem__: (sample, num_label, str_label)
GetItem(dataset, idx) ==
    <<dataset.data[idx], dataset.labels[idx], dataset.pert_labels[idx]>>

\* train_weights = 1 / (1 + torch.sum(torch.tensor(labels), dim=1)): one
\* weight per training cell, the fraction <<1, 1 + sum of its encoding>>.
TrainWeights(labels) ==
    [i \in DOMAIN labels |-> <<1, 1 + SeqSum(labels[i])>>]

\* DataLoader(dataset, batch_size, ...): the sizes of the batches of one
\* pass (drop_last is False: a shorter last batch is kept).
BatchSizes(n, batch_size) ==
    [b \in 1..CeilDiv(n, batch_size) |->
        IF b * batch_size <= n THEN batch_size ELSE n - (b - 1) * batch_size]

DataLoader(dataset, batch_size, weights) ==
    [dataset |-> dataset, batch_size |-> batch_size, weights |-> weights]

DefaultHidden == 512

LoadRaise(a, args, kind, msg) ==
    /\ adata' = Some(a)
    /\ call' = [op |-> "load", args |-> args, outcome |-> kind, msg |-> msg]
    /\ result' = Absent
    /\ UNCHANGED <<selfVars, pc, loaded>>

\* Mutant of TargetColMissing: the default column is looked up, not
\* target_col.
TargetColMissingDefault(a, target_col) == "perturbations" \notin DOMAIN a.obs

TargetColMissing(a, target_col) == target_col \notin DOMAIN a.obs

\* if layer_key is not None and layer_key not in adata.obs.columns
LayerKeyMissing(a, layer_key) ==
    layer_key # PyNone /\ layer_key \notin DOMAIN a.obs

\* adata.obs["encoded_perturbations"] = ...
WithEncoded(a, target_col) ==
    [a EXCEPT !.obs =
        [c \in DOMAIN a.obs \cup {"encoded_perturbations"} |->
            IF c = "encoded_perturbations"
                THEN OneHotEncode(a.obs[target_col])
                ELSE a.obs[c]]]

\* DataFrame.reset_index(drop=True)
ResetIndex(df) == [df EXCEPT !.index = [i \in DOMAIN df.index |-> i - 1]]

ObsFrame(a) == [index |-> a.obs_names, cols |-> a.obs]

\* The outcomes of a random split that a specification explores: all of
\* them, or one of them.
Shuffles(outcomes, shuffles) ==
    IF shuffles = "all" THEN outcomes ELSE {CHOOSE o \in outcomes : TRUE}

\* The identity of a newly constructed network object: one that no
\* object still referred to has.  Only self.model can keep a network
\* alive that load replaces.
NetIds == {"net1", "net2"}

FreshId ==
    CHOOSE i \in NetIds : model = Absent \/ i # Val(model).net.id

(***************************************************************************)
(* DiscriminatorClassifierSpace.load                                       *)
(***************************************************************************)
Load(a, target_col, layer_key, hidden_dim, dropout, batch_norm, batch_size, test_split_size, validation_split_size, shuffles) ==
    LET args == [adata |-> a, target_col |-> target_col,
                 layer_key |-> layer_key, hidden_dim |-> hidden_dim,
                 batch_size |-> batch_size,
                 test_split_size |-> test_split_size,
                 validation_split_size |-> validation_split_size]
    IN
    /\ pc = "idle"
    /\ IF LayerKeyMissing(a, layer_key)
           THEN LoadRaise(a, args, "ValueError", "Layer key not found")
       ELSE IF TargetColMissing(a, target_col)
           THEN LoadRaise(a, args, "ValueError", "Column does not exist")
       ELSE IF target_col \notin DOMAIN a.obs  \* adata.obs[target_col]
           THEN LoadRaise(a, args, "KeyError", "column")
       ELSE
       LET hidden == IF hidden_dim = PyNone THEN <<DefaultHidden>>
                     ELSE hidden_dim
           n_classes == Cardinality(Range(a.obs[target_col]))
           a1 == WithEncoded(a, target_col)
           X == [i \in 1..a.n_obs |-> i]
           y == a.obs[target_col]
       IN  \E s1 \in Shuffles(TrainTestSplit(X, y, test_split_size),
                               shuffles) :
           IF s1.raised # "" THEN LoadRaise(a1, args, s1.raised, "split")
           ELSE
           \E s2 \in Shuffles(ValidationSplit(s1.train, y, test_split_size,
                                   validation_split_size), shuffles) :
           IF s2.raised # "" THEN LoadRaise(a1, args, s2.raised, "split")
           ELSE
           LET train_dataset == PLDataset(a1, s2.train,
                                    "encoded_perturbations", target_col,
                                    layer_key)
               val_dataset == PLDataset(a1, s2.test,
                                    "encoded_perturbations", target_col,
                                    layer_key)
               test_dataset == PLDataset(a1, s1.test,
                                    "encoded_perturbations", target_col,
                                    layer_key)
               total_dataset == PLDataset(a1, X,
                                    "encoded_perturbations", target_col,
                                    layer_key)
               sizes == <<a.n_vars>> \o hidden \o <<n_classes>>
               id == FreshId
           IN  IF train_dataset.raised # ""
                   THEN LoadRaise(a1, args, train_dataset.raised, "layer")
               ELSE
               /\ train_dataloader' = Some(DataLoader(train_dataset,
                       batch_size, TrainWeights(train_dataset.labels)))
               /\ test_dataloader' = Some(DataLoader(test_dataset,
                       batch_size, <<>>))
               /\ valid_dataloader' = Some(DataLoader(val_dataset,
                       batch_size, <<>>))
               /\ net' = Some([id |-> id, trained |-> FALSE,
                        mlp |-> MLP(sizes, dropout, batch_norm, FALSE,
                                    "linear")])
               /\ entire_dataset' = Some(DataLoader(total_dataset,
                       batch_size * 2, <<>>))
               /\ adata_obs' = Some(ResetIndex(ObsFrame(a1)))
               /\ adata' = Some(a1)
               /\ call' = [op |-> "load", args |-> args, outcome |-> "ok",
                           msg |-> ""]
               /\ loaded' = Some(args)
               /\ result' = Absent
               /\ UNCHANGED <<trainer, model, pc>>
    /\ UNCHANGED mlpVars

(***************************************************************************)
(* PerturbationClassifier: the training, validation and test steps on one  *)
(* batch, and get_embeddings.                                              *)
(***************************************************************************)
\* torch.squeeze: every dimension of size 1 is removed.
Squeeze(shape) == SelectSeq(shape, LAMBDA d : d # 1)

\* torch.nn.functional.cross_entropy(input, target) with class-index
\* targets: input (N, C) needs target (N); a 1-d input is one sample and
\* needs a 0-d target, or a 1-d target of the input's length (the size
\* check of nll_loss); a 0-d input is refused.
CrossEntropyOk(input, target) ==
    \/ Len(input) = 2 /\ target = <<input[1]>>
    \/ Len(input) = 1 /\ target \in {<<>>, <<input[1]>>}

\* training_step / validation_step / test_step on a batch of b samples of
\* width n_vars: "" when the loss is computed, else the exception raised.
Step(m, b, n_vars, training) ==
    LET y_hat == MLPforward(m, Tensor(<<b, n_vars>>), training)
        y == <<b>>  \* torch.argmax(y, dim=1)
    IN  IF y_hat.raised # "" THEN y_hat.raised
        ELSE IF CrossEntropyOk(Squeeze(y_hat.shape), y) THEN ""
        ELSE "RuntimeError"

\* The first exception a pass over the given batches of a dataloader
\* raises, "" if none does.
RECURSIVE StepsRaise(_, _, _, _)
StepsRaise(m, loader, batches, training) ==
    IF batches = <<>> THEN ""
    ELSE LET r == Step(m, Head(batches), loader.dataset.n_vars, training)
         IN  IF r # "" THEN r
             ELSE StepsRaise(m, loader, Tail(batches), training)

Batches(loader) == BatchSizes(Len(loader.dataset.data), loader.batch_size)

FirstBatches(batches, k) ==
    SubSeq(batches, 1, IF Len(batches) < k THEN Len(batches) ELSE k)

Epoch(m, loader, training) ==
    StepsRaise(m, loader, Batches(loader), training)

(***************************************************************************)
(* pl.Trainer(min_epochs=1, max_epochs, check_val_every_n_epoch,           *)
(* callbacks=[EarlyStopping(monitor="val_loss", mode="min", patience)]).   *)
(* best_score starts at infinity, here Inf.                                *)
(***************************************************************************)
Inf == MaxLoss + 1

MinEpochs == 1

SanityValSteps == 2

Trainer(max_epochs, val_epochs_check, patience) ==
    [min_epochs |-> MinEpochs,
     max_epochs |-> max_epochs,
     check_val_every_n_epoch |-> val_epochs_check,
     patience |-> patience,
     current_epoch |-> 0,
     val_checks |-> 0,
     wait_count |-> 0,
     best_score |-> Inf,
     should_stop |-> FALSE,
     tests |-> 0,
     state |-> "created"]

\* EarlyStopping after a validation run that logged val_loss.
EarlyStopping(t, val_loss) ==
    IF val_loss < t.best_score
        THEN [t EXCEPT !.best_score = val_loss, !.wait_count = 0]
        ELSE [t EXCEPT !.wait_count = @ + 1,
                       !.should_stop = (t.wait_count + 1 >= t.patience)]

\* The fit loop is done when max_epochs is reached, or when a callback
\* asked to stop and min_epochs is reached.
FitDone(t) ==
    \/ t.current_epoch >= t.max_epochs
    \/ t.should_stop /\ t.current_epoch >= t.min_epochs

TrainCall(max_epochs, val_epochs_check, patience, outcome) ==
    [op |-> "train", outcome |-> outcome, msg |-> "",
     args |-> [max_epochs |-> max_epochs,
               val_epochs_check |-> val_epochs_check,
               patience |-> patience]]

TrainRaise(t, kind) ==
    /\ trainer' = Some([t EXCEPT !.state = "raised"])
    /\ call' = [call EXCEPT !.outcome = kind]
    /\ pc' = "idle"

\* Validation runs after the epochs whose number is a multiple of
\* check_val_every_n_epoch.
ValCheckDue(t) == (t.current_epoch + 1) % t.check_val_every_n_epoch = 0

(***************************************************************************)
(* DiscriminatorClassifierSpace.train, in steps: the call up to the start  *)
(* of the fit loop (with the trainer's sanity run of the first validation  *)
(* batches), one epoch of trainer.fit, and trainer.test.                   *)
(***************************************************************************)
Train(max_epochs, val_epochs_check, patience) ==
    /\ pc = "idle"
    /\ LET t == Trainer(max_epochs, val_epochs_check, patience)
       IN  IF net = Absent \/ train_dataloader = Absent
               THEN /\ trainer' = Some([t EXCEPT !.state = "raised"])
                    /\ call' = TrainCall(max_epochs, val_epochs_check,
                                         patience, "AttributeError")
                    /\ UNCHANGED <<model, pc>>
           ELSE
           LET vl == Val(valid_dataloader)
               sanity == StepsRaise(Val(net).mlp, vl,
                            FirstBatches(Batches(vl), SanityValSteps), FALSE)
           IN  /\ model' = Some([net |-> Val(net),
                        batch_size |-> Val(train_dataloader).batch_size])
               /\ IF sanity # ""
                      THEN /\ trainer' = Some([t EXCEPT !.state = "raised"])
                           /\ call' = TrainCall(max_epochs, val_epochs_check,
                                                patience, sanity)
                           /\ pc' = pc
                      ELSE /\ trainer' = Some([t EXCEPT !.state = "fitting"])
                           /\ call' = TrainCall(max_epochs, val_epochs_check,
                                                patience, "running")
                           /\ pc' = "fit"
    /\ result' = Absent
    /\ UNCHANGED <<adata, train_dataloader, valid_dataloader, test_dataloader,
                   net, entire_dataset, adata_obs, loaded, mlpVars>>

\* An epoch of training changes the weights of the network object, which
\* self.model.net and (when load has not replaced it) self.net share.
Trained(n) == [n EXCEPT !.trained = TRUE]

FitEpoch(val_loss) ==
    /\ pc = "fit"
    /\ LET t == Val(trainer)
           m == Val(model)
           tr == Epoch(m.net.mlp, Val(train_dataloader), TRUE)
           va == Epoch(m.net.mlp, Val(valid_dataloader), FALSE)
           t1 == [t EXCEPT !.val_checks = @ + 1]
           t2 == EarlyStopping(t1, val_loss)
           t3 == IF ValCheckDue(t) THEN t2 ELSE t
           t4 == [t3 EXCEPT !.current_epoch = @ + 1]
       IN  IF tr # "" THEN TrainRaise(t, tr) /\ UNCHANGED <<model, net>>
           ELSE
           /\ model' = Some([m EXCEPT !.net = Trained(@)])
           /\ net' = IF Val(net).id = m.net.id THEN Some(Trained(Val(net)))
                     ELSE net
           /\ IF ValCheckDue(t) /\ va # "" THEN TrainRaise(t1, va)
              ELSE /\ ~ValCheckDue(t) => val_loss = 0
                   /\ trainer' = Some([t4 EXCEPT !.state =
                          IF FitDone(t4) THEN "fitted" ELSE "fitting"])
                   /\ pc' = IF FitDone(t4) THEN "test" ELSE "fit"
                   /\ call' = call
    /\ UNCHANGED <<adata, train_dataloader, valid_dataloader, test_dataloader,
                   entire_dataset, adata_obs, loaded, result, mlpVars>>

Test ==
    /\ pc = "test"
    /\ LET t == Val(trainer)
           te == Epoch(Val(model).net.mlp, Val(test_dataloader), FALSE)
       IN  IF te # "" THEN TrainRaise(t, te)
           ELSE /\ trainer' = Some([t EXCEPT !.tests = @ + 1,
                                             !.state = "tested"])
                /\ call' = [call EXCEPT !.outcome = "ok"]
                /\ pc' = "idle"
    /\ UNCHANGED <<adata, train_dataloader, valid_dataloader, test_dataloader,
                   net, entire_dataset, adata_obs, model, loaded, result,
                   mlpVars>>

(***************************************************************************)
(* DiscriminatorClassifierSpace.get_embeddings                             *)
(***************************************************************************)
\* PerturbationClassifier.get_embeddings on the batch holding the dataset
\* positions lo..hi, then torch.squeeze and AnnData(X=emb): the batch's
\* AnnData, or a raise.  A row of X is [cell, net, trained]: the sample it
\* was computed from, and the network that computed it and whether that
\* had been trained.
BatchAdata(m, dataset, lo, hi) ==
    LET emb == MLPembedding(m.net.mlp, Tensor(<<hi - lo + 1, dataset.n_vars>>),
                            FALSE)
        shape == Squeeze(emb.shape)
    IN  IF emb.raised # "" THEN [raised |-> emb.raised]
        ELSE IF Len(shape) # 2 THEN [raised |-> "ValueError"]
        ELSE [raised |-> "",
              n_vars |-> shape[2],
              X |-> [i \in 1..shape[1] |->
                        [cell |-> GetItem(dataset, lo + i - 1)[1],
                         net |-> m.net.id,
                         trained |-> m.net.trained]],
              perturbations |-> [i \in 1..(hi - lo + 1) |->
                                    GetItem(dataset, lo + i - 1)[3]]]

\* Mutant of ConcatBatches: the new batch is put in front.
ConcatBatchesInFront(pert, batch) ==
    [pert EXCEPT !.X = batch.X \o @,
                 !.perturbations = batch.perturbations \o @]

\* anndata.concat([pert_adata, batch_adata])
ConcatBatches(pert, batch) ==
    [pert EXCEPT !.X = @ \o batch.X,
                 !.perturbations = @ \o batch.perturbations]

\* The loop over self.entire_dataset, from batch number k on.
RECURSIVE EmbedBatches(_, _, _, _)
EmbedBatches(m, loader, k, pert) ==
    LET n == Len(loader.dataset.data)
        lo == (k - 1) * loader.batch_size + 1
        hi == IF k * loader.batch_size <= n THEN k * loader.batch_size ELSE n
        batch == BatchAdata(m, loader.dataset, lo, hi)
    IN  IF lo > n THEN pert
        ELSE IF batch.raised # "" THEN batch
        ELSE IF Len(batch.perturbations) # Len(batch.X)
            THEN [raised |-> "ValueError"]
        ELSE IF k = 1 THEN EmbedBatches(m, loader, k + 1, batch)
        ELSE IF batch.n_vars # pert.n_vars THEN [raised |-> "ValueError"]
        ELSE EmbedBatches(m, loader, k + 1, ConcatBatches(pert, batch))

\* DataFrame.drop(col, axis=1)
DropColumn(df, col) ==
    [df EXCEPT !.cols = [c \in DOMAIN df.cols \ {col} |-> df.cols[c]]]

\* pd.concat([left, right], axis=1) of frames whose indexes hold the same
\* labels: right's rows are matched to left's by index label.
ConcatColumns(left, right) ==
    LET pos(l) == CHOOSE j \in DOMAIN right.index : right.index[j] = l
    IN  [index |-> left.index,
         cols |-> [c \in DOMAIN left.cols \cup DOMAIN right.cols |->
                    IF c \in DOMAIN left.cols THEN left.cols[c]
                    ELSE [i \in DOMAIN left.index |->
                            right.cols[c][pos(left.index[i])]]]]

GetRaise(kind) ==
    /\ call' = [op |-> "get_embeddings", outcome |-> kind, msg |-> ""]
    /\ result' = Absent
    /\ UNCHANGED adata_obs

GetEmbeddings ==
    /\ pc = "idle"
    /\ IF model = Absent \/ entire_dataset = Absent
           THEN GetRaise("AttributeError")
       ELSE
       LET pert == EmbedBatches(Val(model), Val(entire_dataset), 1,
                                [raised |-> "UnboundLocalError"])
       IN  IF pert.raised # "" THEN GetRaise(pert.raised)
           ELSE
           LET obs == ResetIndex([index |-> [i \in DOMAIN pert.X |-> 0],
                        cols |-> [perturbations |-> pert.perturbations]])
               kept == IF "perturbations" \in DOMAIN Val(adata_obs).cols
                           THEN DropColumn(Val(adata_obs), "perturbations")
                           ELSE Val(adata_obs)
           IN  IF Range(obs.index) # Range(kept.index)
                   THEN /\ call' = [op |-> "get_embeddings",
                                    outcome |-> "ValueError", msg |-> ""]
                        /\ adata_obs' = Some(kept)
                        /\ result' = Absent
               ELSE /\ adata_obs' = Some(kept)
                    /\ result' = Some(
                         [X |-> pert.X, n_vars |-> pert.n_vars,
                          obs |-> DropColumn(ConcatColumns(obs, kept),
                                             "encoded_perturbations")])
                    /\ call' = [op |-> "get_embeddings", outcome |-> "ok",
                                msg |-> ""]
    /\ UNCHANGED <<adata, train_dataloader, valid_dataloader, test_dataloader,
                   net, entire_dataset, trainer, model, pc, loaded, mlpVars>>

(***************************************************************************)
(* The AnnData objects, and the arguments, that load is called with.       *)
(***************************************************************************)
\* Cell i's perturbation in column "perturbations": the k perturbations
\* alternate.
Alternating(n, k) == [i \in 1..n |-> (i - 1) % k]

\* Cell i's perturbation in column "gene_target": the cells of one
\* perturbation are adjacent.
Blocks(n, k) == [i \in 1..n |-> (i - 1) \div CeilDiv(n, k)]

MakeAdata(n, k, n_vars) ==
    [n_obs |-> n,
     n_vars |-> n_vars,
     obs |-> [perturbations |-> Alternating(n, k),
              gene_target |-> Blocks(n, k),
              counts |-> [i \in 1..n |-> 0]],
     obs_names |-> [i \in 1..n |-> n - i],
     layers |-> {"counts", "lognorm"}]

Adatas(Ns, Ks, Vs) == {MakeAdata(n, k, v) : n \in Ns, k \in Ks, v \in Vs}

TargetCols == {"perturbations", "gene_target", "missing"}

\* None; a layer that is also an .obs column; a layer; an .obs column that
\* is no layer; neither.
LayerKeys == {PyNone, "counts", "lognorm", "gene_target", "nokey"}

\* (test_split_size, validation_split_size): the defaults 0.2 and 0.25,
\* and 1/3 and 1/2.
SplitSizes == {<< <<1, 5>>, <<1, 4>> >>, << <<1, 3>>, <<1, 2>> >>}

InitObj ==
    /\ adata = Absent
    /\ train_dataloader = Absent
    /\ valid_dataloader = Absent
    /\ test_dataloader = Absent
    /\ net = Absent
    /\ entire_dataset = Absent
    /\ adata_obs = Absent
    /\ trainer = Absent
    /\ model = Absent
    /\ pc = "idle"
    /\ call = [op |-> "none", outcome |-> "", msg |-> ""]
    /\ loaded = Absent
    /\ result = Absent

Init ==
    /\ mlp = Absent
    /\ mlp_out = NoOut
    /\ InitObj

NextMLP ==
    \/ \E sizes \in SizesLists, p \in DropoutPs, bn \in BOOLEAN,
          ln \in BOOLEAN, act \in Activations :
            MLPNew(sizes, p, bn, ln, act)
    \/ \E b \in {1, MaxBatch} : MLPCallForward(b)
    \/ \E b \in {1, MaxBatch} : MLPCallEmbedding(b)

SpecMLP == Init /\ [][NextMLP]_vars

\* The first load on a fresh object, over every AnnData size, both label
\* columns and both pairs of split sizes.
NextSplit ==
    /\ net = Absent
    /\ \E a \in Adatas(1..MaxObs, 1..MaxClasses, {MaxWidth}),
          target_col \in {"perturbations", "gene_target"},
          ss \in SplitSizes :
            Load(a, target_col, PyNone, <<MaxWidth>>, 0, TRUE, MaxBatch,
                 ss[1], ss[2], "all")

SpecSplit == Init /\ [][NextSplit]_vars

\* Repeated calls of load on one object, over every target column and
\* layer key, with AnnData objects of SmallObs cells.
SmallObs == {3}

NextLoad ==
    \E a \in Adatas(SmallObs, 1..MaxClasses, {MaxWidth}),
       target_col \in TargetCols, layer_key \in LayerKeys :
        Load(a, target_col, layer_key, PyNone, 0, TRUE, MaxBatch,
             <<1, 3>>, <<1, 2>>, "all")

\* The first load on a fresh object, then calls of train.
NextTrain ==
    \/ /\ net = Absent
       /\ \E a \in Adatas((MaxObs - 1)..MaxObs, 2..MaxClasses, {MaxWidth}),
             batch_size \in 2..MaxBatch, ss \in SplitSizes :
               Load(a, "perturbations", PyNone, <<MaxWidth>>, 0, TRUE,
                    batch_size, ss[1], ss[2], "one")
    \/ \E max_epochs \in 1..MaxEpochs, val_epochs_check \in 1..MaxValCheck,
          patience \in 1..MaxPatience :
            Train(max_epochs, val_epochs_check, patience)
    \/ \E val_loss \in 0..MaxLoss : FitEpoch(val_loss)
    \/ Test

SpecTrain == Init /\ [][NextTrain]_vars

\* Calls of load, train and get_embeddings on one object, in any order.
\* Which cells a split puts where does not matter to train and
\* get_embeddings, so one outcome of each random split is explored; the
\* validation loss improves at the first check only.
NextLife ==
    \/ \E a \in Adatas((MaxObs - 1)..MaxObs, {2}, {MaxWidth}),
          target_col \in {"perturbations", "gene_target"},
          hidden_dim \in {<<1>>, <<MaxWidth>>},
          batch_size \in 2..MaxBatch :
            Load(a, target_col, PyNone, hidden_dim, 0, TRUE, batch_size,
                 <<1, 3>>, <<1, 2>>, "one")
    \/ \E max_epochs \in 1..2 : Train(max_epochs, 1, 1)
    \/ FitEpoch(0)
    \/ Test
    \/ GetEmbeddings

SpecLife == Init /\ [][NextLife]_vars

SpecLoad == Init /\ [][NextLoad]_vars

(***************************************************************************)
(* C1: for every MLP built from sizes with at least one hidden layer, and  *)
(* every batch_norm/layer_norm, the last layer of the network is the       *)
(* classification layer Linear(sizes[-2], sizes[-1]); embedding applies    *)
(* exactly the layers before it, in order, so its output has width         *)
(* sizes[-2]; and with last_layer_act = "linear", forward(x) is that final *)
(* Linear layer applied to embedding(x).                                   *)
(***************************************************************************)
FinalLinear(m) ==
    Linear(m.sizes[Len(m.sizes) - 1], m.sizes[Len(m.sizes)])

IsHiddenMLP == Has(mlp) /\ Len(Val(mlp).sizes) >= 3

C1_EmbeddingIsPenultimate ==
    IsHiddenMLP =>
        LET m == Val(mlp)
            L == Len(m.sizes)
        IN  /\ Last(m.network) = FinalLinear(m)
            /\ Cardinality({i \in 1..Len(m.network) :
                               m.network[i].kind = "Linear"}) = L - 1
            /\ mlp_out.op = "embedding" =>
                 /\ mlp_out.y.raised = ""
                 /\ mlp_out.y.trace = ButLast(m.network)
                 /\ mlp_out.y.shape = <<mlp_out.x.shape[1], m.sizes[L - 1]>>
                 /\ m.last_layer_act = "linear" =>
                        MLPforward(m, mlp_out.x, FALSE)
                            = ApplyLayer(FinalLinear(m), mlp_out.y, FALSE)
            /\ (mlp_out.op = "forward" /\ m.last_layer_act = "linear") =>
                 /\ mlp_out.y.raised = ""
                 /\ mlp_out.y.trace
                        = Append(MLPembedding(m, mlp_out.x, FALSE).trace,
                                 FinalLinear(m))
                 /\ mlp_out.y.shape = <<mlp_out.x.shape[1], m.sizes[L]>>

C1_Witness ==
    /\ IsHiddenMLP
    /\ Len(Val(mlp).sizes) = MaxHidden + 2
    /\ Val(mlp).batch_norm
    /\ mlp_out.op = "embedding"
    /\ mlp_out.y.shape[2] = Val(mlp).sizes[Len(Val(mlp).sizes) - 1]
    /\ Val(mlp).sizes[Len(Val(mlp).sizes) - 1]
         # Val(mlp).sizes[Len(Val(mlp).sizes)]

(***************************************************************************)
(* Claims about load.                                                      *)
(***************************************************************************)
LoadOk == call.op = "load" /\ call.outcome = "ok"

\* The cell positions a dataloader's dataset holds, in dataset order.
Cells(loader) ==
    [i \in DOMAIN Val(loader).dataset.data |-> Val(loader).dataset.data[i][2]]

NoRepeats(seq) == Cardinality(Range(seq)) = Len(seq)

\* m cells are the fraction f of n cells, rounded up to whole cells.
IsFraction(m, f, n) == m * f[2] >= f[1] * n /\ (m - 1) * f[2] < f[1] * n

(***************************************************************************)
(* C2: in the training sampler, of any two training cells the one whose    *)
(* perturbation occurs less often in the training split has the strictly   *)
(* larger sampling weight.                                                  *)
(***************************************************************************)
C2_RareSampledMore ==
    LoadOk =>
        LET ds == Val(train_dataloader).dataset
            w == Val(train_dataloader).weights
        IN  \A i, j \in DOMAIN ds.pert_labels :
                Count(ds.pert_labels, ds.pert_labels[i])
                    < Count(ds.pert_labels, ds.pert_labels[j])
                => w[i][1] * w[j][2] > w[j][1] * w[i][2]

(***************************************************************************)
(* C5: load partitions the cells: the train, validation and test datasets  *)
(* are pairwise disjoint and together hold every cell; the test set is the *)
(* test_split_size fraction of all cells and the validation set the        *)
(* validation_split_size fraction of the cells left after the test set is  *)
(* removed (each rounded up to whole cells); the dataset used for          *)
(* embedding extraction holds every cell exactly once.                     *)
(***************************************************************************)
C5_SplitIsPartition ==
    LoadOk =>
        LET n == call.args.adata.n_obs
            tr == Cells(train_dataloader)
            va == Cells(valid_dataloader)
            te == Cells(test_dataloader)
            all == Cells(entire_dataset)
        IN  /\ NoRepeats(tr) /\ NoRepeats(va) /\ NoRepeats(te)
            /\ Range(tr) \cap Range(va) = {}
            /\ Range(tr) \cap Range(te) = {}
            /\ Range(va) \cap Range(te) = {}
            /\ Range(tr) \cup Range(va) \cup Range(te) = 1..n
            /\ IsFraction(Len(te), call.args.test_split_size, n)
            /\ IsFraction(Len(va), call.args.validation_split_size,
                          n - Len(te))
            /\ NoRepeats(all) /\ Range(all) = 1..n

C5_Witness ==
    /\ LoadOk
    /\ call.args.adata.n_obs = 5
    /\ call.args.test_split_size = <<1, 5>>
    /\ call.args.validation_split_size = <<1, 4>>
    /\ Len(Cells(test_dataloader)) = 1
    /\ Len(Cells(valid_dataloader)) = 1
    /\ Len(Cells(train_dataloader)) = 3

(***************************************************************************)
(* C6: load raises the "Layer key not found" ValueError exactly when       *)
(* layer_key is not None and is no key of adata.layers; a layer_key that   *)
(* names a layer is not what makes load fail, and then every dataset reads *)
(* its samples from that layer; with layer_key None they come from X.      *)
(***************************************************************************)
Sources(loader) ==
    {Val(loader).dataset.data[i][1] : i \in DOMAIN Val(loader).dataset.data}

AllSources ==
    Sources(train_dataloader) \cup Sources(valid_dataloader)
        \cup Sources(test_dataloader) \cup Sources(entire_dataset)

C6_LayerKeySelectsLayer ==
    call.op = "load" =>
        LET key == call.args.layer_key
            layers == call.args.adata.layers
        IN  /\ (call.msg = "Layer key not found")
                <=> (key # PyNone /\ key \notin layers)
            /\ key \in layers => call.outcome # "KeyError"
            /\ (key \in layers /\ call.outcome = "ok")
                => AllSources = {key}
            /\ (key = PyNone /\ call.outcome = "ok") => AllSources = {"X"}

(***************************************************************************)
(* C8: a load whose target_col is no column of adata.obs raises ValueError *)
(* and changes nothing: adata.obs gains no "encoded_perturbations" column  *)
(* and every attribute of the object is as it was before the call.         *)
(***************************************************************************)
C8_MissingColumnChangesNothing ==
    [][(call'.op = "load"
          /\ call'.args.target_col \notin DOMAIN call'.args.adata.obs)
        => /\ call'.outcome = "ValueError"
           /\ DOMAIN Val(adata').obs = DOMAIN call'.args.adata.obs
           /\ "encoded_perturbations" \notin DOMAIN Val(adata').obs
           /\ selfVars' = selfVars]_vars

C8_Witness ==
    /\ call.op = "load"
    /\ call.args.target_col \notin DOMAIN call.args.adata.obs
    /\ call.args.layer_key = PyNone
    /\ call.msg = "Column does not exist"
    /\ Has(net) /\ Has(adata_obs) /\ Has(train_dataloader)

(***************************************************************************)
(* Claims about train.                                                     *)
(***************************************************************************)
TrainEnded == call.op = "train" /\ pc = "idle"

(***************************************************************************)
(* C7: a train call on a loaded object respects its stopping rules:        *)
(* fitting never runs more than max_epochs epochs; validation has run once *)
(* per val_epochs_check completed epochs; fitting does not go on once      *)
(* patience validation checks have passed without improvement; the test    *)
(* set is evaluated at most once and only when fitting is done; and when   *)
(* the call has ended, fitting has run at least one epoch and the test set *)
(* has been evaluated exactly once.                                        *)
(***************************************************************************)
C7_TrainStoppingRules ==
    (Has(trainer) /\ Has(net)) =>
        LET t == Val(trainer)
        IN  /\ t.current_epoch <= t.max_epochs
            /\ t.state # "raised" =>
                 t.val_checks = t.current_epoch \div t.check_val_every_n_epoch
            /\ t.wait_count >= t.patience => t.state # "fitting"
            /\ t.tests <= 1
            /\ t.tests = 1 => FitDone(t)
            /\ TrainEnded =>
                 /\ t.current_epoch >= 1
                 /\ t.tests = 1

(***************************************************************************)
(* Claims about get_embeddings.                                            *)
(***************************************************************************)
GetOk == call.op = "get_embeddings" /\ call.outcome = "ok"

\* The last train call ran to its end on the network of the last load.
TrainedOnLoaded ==
    /\ Has(loaded) /\ Has(model) /\ Has(trainer)
    /\ Val(model).net.id = Val(net).id
    /\ Val(trainer).state = "tested"

(***************************************************************************)
(* C3: after load and train, get_embeddings returns a matrix with one row  *)
(* per cell of the loaded adata and hidden_dim[-1] columns, whatever the   *)
(* number of cells, the batch size and the width of the last hidden layer. *)
(***************************************************************************)
C3_EmbeddingShape ==
    (call.op = "get_embeddings" /\ TrainedOnLoaded) =>
        /\ call.outcome = "ok"
        /\ Len(Val(result).X) = Val(loaded).adata.n_obs
        /\ Val(result).n_vars = Last(Val(loaded).hidden_dim)

(***************************************************************************)
(* C4: row i of the AnnData get_embeddings returns is the embedding of     *)
(* cell i of the adata passed to load, and its .obs["perturbations"] is    *)
(* that cell's value of adata.obs[target_col].                             *)
(***************************************************************************)
C4_RowOrderStable ==
    GetOk =>
        LET r == Val(result)
            a == Val(loaded).adata
            col == Val(loaded).target_col
        IN  /\ Len(r.X) = a.n_obs
            /\ Len(r.obs.cols["perturbations"]) = a.n_obs
            /\ \A i \in 1..a.n_obs :
                 /\ r.X[i].cell = <<"X", i>>
                 /\ r.obs.cols["perturbations"][i] = a.obs[col][i]

C4_Witness ==
    /\ GetOk
    /\ TrainedOnLoaded
    /\ Val(loaded).target_col = "gene_target"
    /\ Val(loaded).adata.obs["gene_target"]
         # Val(loaded).adata.obs["perturbations"]
    /\ Len(Val(result).X) > Val(entire_dataset).batch_size

(***************************************************************************)
(* C9: whenever get_embeddings returns a result, every row of it was       *)
(* computed by the network that the most recent load constructed, and that *)
(* network has been trained (so by a train call made after that load).     *)
(***************************************************************************)
C9_EmbeddingFromCurrentTrainedNet ==
    GetOk =>
        \A i \in DOMAIN Val(result).X :
            /\ Val(result).X[i].net = Val(net).id
            /\ Val(result).X[i].trained

=============================================================================
